---- MODULE Spec2Model ----
(***************************************************************************)
(* Model of benchmark_models.py: the OllamaBenchmark class and main().     *)
(*                                                                         *)
(* Numbers.  Python floats are modelled exactly: an unrounded quotient is  *)
(* a rational [n, d] (d > 0), and every value the code passes through      *)
(* round(x, 2) is an integer number of hundredths (0.33 is 33).            *)
(* A backend response is the sequence of its whitespace-delimited words.   *)
(* Time stamps, system information and the response preview text are not   *)
(* part of the model.                                                      *)
(***************************************************************************)
EXTENDS Integers, Sequences, FiniteSets, TLC

(* ------------------------------ bounds --------------------------------- *)

\* Largest number of model lines in a backend listing.
MaxModels == 2

\* Largest number of words in a backend response.
MaxWords == 2

(* ------------------------- program constants --------------------------- *)

\* self.test_prompts (the prompt text itself is not modelled).
test_prompts ==
    << [name |-> "Creative Writing",      expected_tokens |-> 150],
       [name |-> "Technical Explanation", expected_tokens |-> 200],
       [name |-> "Code Generation",       expected_tokens |-> 100] >>

\* The message of the TimeoutExpired handler of run_inference.
TimeoutMessage == "Timeout after 120 seconds"

(* ------------------------- the environment ----------------------------- *)

\* Identifiers the backend may list, in listing order.
ModelNames == << "m1", "m2", "m3", "m4", "m5" >>

\* First line of `ollama list`.
HeaderLine == << "NAME", "ID", "SIZE", "MODIFIED" >>

\* A line is the sequence of its whitespace-delimited fields; <<>> is blank.
ModelLine(k) == << ModelNames[k], "id", "size", "modified" >>

\* What `ollama list` prints with n models installed: header, then n model
\* lines, possibly with a blank line after the header and a trailing one.
ListingTexts(n) ==
    { <<HeaderLine>> \o [k \in 1..n |-> ModelLine(k)],
      <<HeaderLine, <<>> >> \o [k \in 1..n |-> ModelLine(k)] \o << <<>> >> }

\* Completed processes of `ollama list` with at most `most` models installed:
\* exit 0 with a listing of the installed models, or exit non-zero.
ListingRuns(most) ==
    UNION { { [returncode |-> 0, stdout |-> t, installed |-> n] : t \in ListingTexts(n) }
            \cup { [returncode |-> 1, stdout |-> <<>>, installed |-> n] }
            : n \in 0..most }

\* Seconds an invocation can take, as measured by time.time().
ElapsedWide == {0, 1, 3}

\* Resident-memory readings of the calling process, in MB.
MemoryReadings == {50, 52}

\* Ways `ollama run` can end: exit 0 with a response, exit non-zero,
\* TimeoutExpired, or another exception raised inside the try block.
Completions(words, elapsed, memory) ==
    { [kind |-> "ok", response |-> [k \in 1..w |-> "w"], elapsed |-> e, memory_after |-> m]
        : w \in words, e \in elapsed, m \in memory } \cup
    { [kind |-> "nonzero", response |-> <<>>, elapsed |-> 1, memory_after |-> 50],
      [kind |-> "timeout", response |-> <<>>, elapsed |-> 1, memory_after |-> 50],
      [kind |-> "raise",   response |-> <<>>, elapsed |-> 1, memory_after |-> 50] }

\* Inputs of a run over several models: few completions per prompt.
RunListings == ListingRuns(MaxModels)
RunReadings == {50}
RunCompletions ==
    { c \in Completions({0, MaxWords}, {1}, RunReadings) : c.kind \in {"ok", "timeout"} }

\* Inputs of a run checked for termination: an invocation succeeds or fails.
LiveCompletions == { c \in RunCompletions : c.kind = "timeout" \/ c.response # <<>> }

\* Inputs of a run with at most one model installed: every completion.
OneListings == ListingRuns(1)
WideCompletions == Completions(0..MaxWords, ElapsedWide, MemoryReadings)

(* ------------------------------ numbers -------------------------------- *)

Rat(n, d) == [n |-> n, d |-> d]

RatAdd(a, b) == [n |-> a.n * b.d + b.n * a.d, d |-> a.d * b.d]

RatDiv(a, k) == [n |-> a.n, d |-> a.d * k]

\* r rounded to a whole number of 1/scale: nearest, ties to even.
RoundTo(r, scale) ==
    LET scaled == scale * r.n
        q == scaled \div r.d
        rem == scaled % r.d
    IN  IF 2 * rem < r.d THEN q
        ELSE IF 2 * rem > r.d THEN q + 1
        ELSE IF q % 2 = 0 THEN q ELSE q + 1

\* round(x, 2), in hundredths.
Round2(r) == RoundTo(r, 100)

\* f"{x:.1f}" of a value held in hundredths, in tenths.
FormatTenths(h) == RoundTo(Rat(h, 100), 10)

(* ------------------------- pure functions ------------------------------ *)

RECURSIVE DropBlankFront(_)
DropBlankFront(lines) ==
    IF lines # <<>> /\ Head(lines) = <<>> THEN DropBlankFront(Tail(lines)) ELSE lines

RECURSIVE DropBlankBack(_)
DropBlankBack(lines) ==
    IF lines # <<>> /\ lines[Len(lines)] = <<>>
    THEN DropBlankBack(SubSeq(lines, 1, Len(lines) - 1))
    ELSE lines

\* result.stdout.strip().split('\n'): never empty, '' splits to [''].
StripSplit(text) ==
    LET t == DropBlankBack(DropBlankFront(text))
    IN  IF t = <<>> THEN << <<>> >> ELSE t

RECURSIVE FirstFields(_)
FirstFields(lines) ==
    IF lines = <<>> THEN <<>>
    ELSE IF Head(lines) # <<>>
         THEN <<Head(lines)[1]>> \o FirstFields(Tail(lines))
         ELSE FirstFields(Tail(lines))

\* get_available_models: [] on CalledProcessError, else the first field of
\* every non-blank line after the first.
get_available_models(run) ==
    IF run.returncode # 0 THEN <<>>
    ELSE FirstFields(Tail(StripSplit(run.stdout)))

\* count_tokens: len(text.split()).
count_tokens(response) == Len(response)

\* len(response): one-character words joined by single spaces.
ResponseLength(response) ==
    IF Len(response) = 0 THEN 0 ELSE 2 * Len(response) - 1

\* run_inference that reports the time of a failed invocation next to its
\* error.
run_inference_mixed(memory_before, c) ==
    IF c.kind = "ok"
    THEN LET token_count == Len(c.response)
             tokens_per_second ==
                 IF c.elapsed > 0 THEN Rat(token_count, c.elapsed) ELSE Rat(0, 1)
         IN  [response |-> c.response,
              total_time |-> Rat(c.elapsed, 1),
              tps |-> tokens_per_second,
              metrics |-> [total_time |-> Round2(Rat(c.elapsed, 1)),
                           tokens_generated |-> token_count,
                           tokens_per_second |-> Round2(tokens_per_second),
                           memory_delta_mb |-> Round2(Rat(c.memory_after - memory_before, 1)),
                           response_length |-> ResponseLength(c.response)]]
    ELSE [response |-> <<>>, total_time |-> Rat(0, 1), tps |-> Rat(0, 1),
          metrics |-> [error |-> c.kind, total_time |-> Round2(Rat(c.elapsed, 1))]]

\* run_inference's return value (response, total_time, tokens_per_second,
\* metrics) for a call that read memory_before and completed as c.
run_inference(memory_before, c) ==
    IF c.kind = "nonzero"
    THEN [response |-> <<>>, total_time |-> Rat(0, 1), tps |-> Rat(0, 1),
          metrics |-> [error |-> "stderr"]]
    ELSE IF c.kind = "timeout"
    THEN [response |-> <<>>, total_time |-> Rat(0, 1), tps |-> Rat(0, 1),
          metrics |-> [error |-> TimeoutMessage]]
    ELSE IF c.kind = "raise"
    THEN [response |-> <<>>, total_time |-> Rat(0, 1), tps |-> Rat(0, 1),
          metrics |-> [error |-> "exception"]]
    ELSE LET token_count == count_tokens(c.response)
             tokens_per_second ==
                 IF c.elapsed > 0 THEN Rat(token_count, c.elapsed) ELSE Rat(0, 1)
         IN  [response |-> c.response,
              total_time |-> Rat(c.elapsed, 1),
              tps |-> tokens_per_second,
              metrics |-> [total_time |-> Round2(Rat(c.elapsed, 1)),
                           tokens_generated |-> token_count,
                           tokens_per_second |-> Round2(tokens_per_second),
                           memory_delta_mb |-> Round2(Rat(c.memory_after - memory_before, 1)),
                           response_length |-> ResponseLength(c.response)]]

\* NoError that also asks for a response with tokens in it.
NoErrorNonEmpty(metrics) ==
    "error" \notin DOMAIN metrics /\ metrics.tokens_generated > 0

\* "error" not in metrics
NoError(metrics) == "error" \notin DOMAIN metrics

\* The dictionary benchmark_model starts from.
NewModelResults(model) ==
    [model |-> model, prompts |-> <<>>, average_tps |-> 0, average_time |-> 0]

\* WithAverages dividing by the number of prompts, not of successes.
WithAveragesOverAll(mr, tps_sum, time_sum, successes) ==
    IF successes > 0
    THEN [model |-> mr.model,
          prompts |-> mr.prompts,
          average_tps |-> Round2(RatDiv(tps_sum, Len(test_prompts))),
          average_time |-> Round2(RatDiv(time_sum, Len(test_prompts))),
          success_rate |-> Round2(Rat(successes, Len(test_prompts)))]
    ELSE mr

\* "Calculate averages": the dictionary benchmark_model returns.
WithAverages(mr, tps_sum, time_sum, successes) ==
    IF successes > 0
    THEN [model |-> mr.model,
          prompts |-> mr.prompts,
          average_tps |-> Round2(RatDiv(tps_sum, successes)),
          average_time |-> Round2(RatDiv(time_sum, successes)),
          success_rate |-> Round2(Rat(successes, Len(test_prompts)))]
    ELSE mr

\* r.get(key, 0)
Get(r, key) == IF key \in DOMAIN r THEN r[key] ELSE 0

\* [r for r in self.results if r.get('average_tps', 0) > 0]
RECURSIVE Positive(_)
Positive(rs) ==
    IF rs = <<>> THEN <<>>
    ELSE IF Get(Head(rs), "average_tps") > 0
         THEN <<Head(rs)>> \o Positive(Tail(rs))
         ELSE Positive(Tail(rs))

\* InsertDesc placing r before the entries of equal average_tps.
RECURSIVE InsertDescUnstable(_, _)
InsertDescUnstable(sorted, r) ==
    IF sorted = <<>> THEN <<r>>
    ELSE IF Get(Head(sorted), "average_tps") > Get(r, "average_tps")
         THEN <<Head(sorted)>> \o InsertDescUnstable(Tail(sorted), r)
         ELSE <<r>> \o sorted

\* r placed into a sequence already sorted by average_tps descending,
\* after every entry whose average_tps is not smaller.
RECURSIVE InsertDesc(_, _)
InsertDesc(sorted, r) ==
    IF sorted = <<>> THEN <<r>>
    ELSE IF Get(Head(sorted), "average_tps") >= Get(r, "average_tps")
         THEN <<Head(sorted)>> \o InsertDesc(Tail(sorted), r)
         ELSE <<r>> \o sorted

\* sorted(rs, key=average_tps, reverse=True): stable.
RECURSIVE SortedDesc(_)
SortedDesc(rs) ==
    IF rs = <<>> THEN <<>>
    ELSE InsertDesc(SortedDesc(SubSeq(rs, 1, Len(rs) - 1)), rs[Len(rs)])

\* One printed line of the summary table.
Row(r) ==
    [model |-> r.model,
     avg_tps |-> FormatTenths(Get(r, "average_tps")),
     avg_time |-> FormatTenths(Get(r, "average_time")),
     success |-> Get(r, "success_rate")]

\* What print_summary prints for rs.
print_summary(rs) ==
    IF rs = <<>>
    THEN [kind |-> "no_results", rows |-> <<>>, fastest |-> <<>>]
    ELSE LET Table(sorted_results) ==
                 [kind |-> "table",
                  rows |-> [k \in 1..Len(sorted_results) |-> Row(sorted_results[k])],
                  fastest |-> IF sorted_results # <<>>
                              THEN <<sorted_results[1].model>> ELSE <<>>]
         \* sorted_results is computed once, then printed.
         IN  CHOOSE table \in { Table(sorted_results) :
                                  sorted_results \in {SortedDesc(Positive(rs))} } : TRUE

(* ------------------------------- state --------------------------------- *)

VARIABLES
    pc,               \* where the program is
    in_handler,       \* TRUE inside main's except KeyboardInterrupt clause
    exit,             \* how the process ended ("" while it runs)
    models,           \* run_full_benchmark's models
    i,                \* index of the model of the current loop iteration
    results,          \* self.results
    model_results,    \* benchmark_model's dictionary
    total_tps,        \* benchmark_model's locals
    total_time,
    successful_tests,
    call,             \* the backend invocation in flight, <<>> if none
    artifact,         \* the results file of today's date
    summary,          \* what print_summary printed last
    interrupts,       \* history: KeyboardInterrupts delivered
    attempts,         \* history: how each benchmark_model call ended
    outcomes,         \* history: how each invocation for the current model ended
    listed,           \* history: exit code of `ollama list`, models installed
    started,          \* history: the (model, prompt) of every invocation started
    collected         \* history: <<self.results>> at the first interrupt

locals == <<model_results, total_tps, total_time, successful_tests, call>>
flow == <<pc, in_handler, exit>>
store == <<artifact, summary>>
history == <<interrupts, attempts, outcomes, listed, started, collected>>
vars == <<flow, models, i, results, locals, store, history>>

NoModelResults == [model |-> "", prompts |-> <<>>, average_tps |-> 0, average_time |-> 0]

ResetLocals ==
    /\ model_results' = NoModelResults
    /\ total_tps' = Rat(0, 1)
    /\ total_time' = Rat(0, 1)
    /\ successful_tests' = 0
    /\ call' = <<>>
    /\ outcomes' = <<>>

Init ==
    /\ pc = "discover"
    /\ in_handler = FALSE
    /\ exit = ""
    /\ models = <<>>
    /\ i = 0
    /\ results = <<>>
    /\ model_results = NoModelResults
    /\ total_tps = Rat(0, 1)
    /\ total_time = Rat(0, 1)
    /\ successful_tests = 0
    /\ call = <<>>
    /\ artifact = [state |-> "none", results |-> <<>>]
    /\ summary = [kind |-> "none", rows |-> <<>>, fastest |-> <<>>]
    /\ interrupts = 0
    /\ attempts = <<>>
    /\ outcomes = <<>>
    /\ listed = [returncode |-> 0, installed |-> 0]
    /\ started = <<>>
    /\ collected = <<>>

(* ------------------------- run_full_benchmark -------------------------- *)

\* AfterDiscovery without the early return on an empty list.
AfterDiscoveryNoReturn(ms) == [pc |-> "loop", exit |-> "", i |-> 1]

\* if not models: return
AfterDiscovery(ms) ==
    IF ms = <<>>
    THEN [pc |-> "done", exit |-> "no_models", i |-> 0]
    ELSE [pc |-> "loop", exit |-> "", i |-> 1]

\* models = self.get_available_models()
Discover(listings) ==
    /\ pc = "discover"
    /\ \E run \in listings :
         /\ models' = get_available_models(run)
         /\ listed' = [returncode |-> run.returncode, installed |-> run.installed]
    /\ LET next == AfterDiscovery(models')
       IN  pc' = next.pc /\ exit' = next.exit /\ i' = next.i
    /\ UNCHANGED <<in_handler, results, locals, store, interrupts, attempts,
                   outcomes, started, collected>>

\* for i, model in enumerate(models, 1): ... benchmark_model(model) begins.
NextModel ==
    /\ pc = "loop"
    /\ i <= Len(models)
    /\ pc' = "prompt"
    /\ model_results' = NewModelResults(models[i])
    /\ total_tps' = Rat(0, 1)
    /\ total_time' = Rat(0, 1)
    /\ successful_tests' = 0
    /\ UNCHANGED <<in_handler, exit, models, i, results, call, store, history>>

\* The for loop is exhausted: self.save_results() is called.
LoopEnd ==
    /\ pc = "loop"
    /\ i > Len(models)
    /\ pc' = "save"
    /\ UNCHANGED <<in_handler, exit, models, i, results, locals, store, history>>

(* --------------------------- benchmark_model --------------------------- *)

\* The next test_prompt: run_inference reads the memory and starts the backend.
StartInference(readings) ==
    /\ pc = "prompt"
    /\ Len(model_results.prompts) < Len(test_prompts)
    /\ \E m \in readings :
         call' = << [model |-> model_results.model,
                     prompt |-> test_prompts[Len(model_results.prompts) + 1].name,
                     memory_before |-> m] >>
    /\ started' = Append(started,
                         <<model_results.model,
                           test_prompts[Len(model_results.prompts) + 1].name>>)
    /\ pc' = "invoke"
    /\ UNCHANGED <<in_handler, exit, models, i, results, model_results,
                   total_tps, total_time, successful_tests, store,
                   interrupts, attempts, outcomes, listed, collected>>

\* FinishInference for a run_inference without its `except Exception` clause:
\* an exception of the invocation escapes benchmark_model.
FinishInferenceRaises(completions) ==
    /\ pc = "invoke"
    /\ \E c \in completions :
         IF c.kind = "raise"
         THEN /\ attempts' = Append(attempts, [model |-> models[i], end |-> "fault",
                                                before |-> results])
              /\ i' = i + 1
              /\ pc' = "loop"
              /\ ResetLocals
         ELSE LET r == run_inference(call[1].memory_before, c)
                  prompt_result == [name |-> call[1].prompt, metrics |-> r.metrics]
              IN  /\ model_results' =
                         [model_results EXCEPT !.prompts = Append(@, prompt_result)]
                  /\ IF NoError(r.metrics)
                     THEN /\ total_tps' = RatAdd(total_tps, r.tps)
                          /\ total_time' = RatAdd(total_time, r.total_time)
                          /\ successful_tests' = successful_tests + 1
                     ELSE UNCHANGED <<total_tps, total_time, successful_tests>>
                  /\ outcomes' = Append(outcomes, c.kind)
                  /\ call' = <<>>
                  /\ pc' = "prompt"
                  /\ UNCHANGED <<i, attempts>>
    /\ UNCHANGED <<in_handler, exit, models, results, store, interrupts, listed,
                   started, collected>>

\* FinishInference that runs the prompt again when the invocation failed.
FinishInferenceRetries(completions) ==
    /\ pc = "invoke"
    /\ \E c \in completions :
         LET r == run_inference(call[1].memory_before, c)
             prompt_result == [name |-> call[1].prompt, metrics |-> r.metrics]
         IN  IF NoError(r.metrics)
             THEN /\ model_results' =
                         [model_results EXCEPT !.prompts = Append(@, prompt_result)]
                  /\ total_tps' = RatAdd(total_tps, r.tps)
                  /\ total_time' = RatAdd(total_time, r.total_time)
                  /\ successful_tests' = successful_tests + 1
                  /\ outcomes' = Append(outcomes, c.kind)
             ELSE UNCHANGED <<model_results, total_tps, total_time, successful_tests,
                              outcomes>>
    /\ call' = <<>>
    /\ pc' = "prompt"
    /\ UNCHANGED <<in_handler, exit, models, i, results, store, interrupts,
                   attempts, listed, started, collected>>

\* The invocation ends as c; the prompt result is appended and the sums updated.
FinishInference(completions) ==
    /\ pc = "invoke"
    /\ \E c \in completions :
         LET r == run_inference(call[1].memory_before, c)
             prompt_result == [name |-> call[1].prompt, metrics |-> r.metrics]
         IN  /\ model_results' =
                    [model_results EXCEPT !.prompts = Append(@, prompt_result)]
             /\ IF NoError(r.metrics)
                THEN /\ total_tps' = RatAdd(total_tps, r.tps)
                     /\ total_time' = RatAdd(total_time, r.total_time)
                     /\ successful_tests' = successful_tests + 1
                ELSE UNCHANGED <<total_tps, total_time, successful_tests>>
             /\ outcomes' = Append(outcomes, c.kind)
    /\ call' = <<>>
    /\ pc' = "prompt"
    /\ UNCHANGED <<in_handler, exit, models, i, results, store, interrupts,
                   attempts, listed, started, collected>>

\* All prompts ran: the averages are computed, the dictionary is returned
\* and run_full_benchmark appends it to self.results.
FinishModel ==
    /\ pc = "prompt"
    /\ Len(model_results.prompts) = Len(test_prompts)
    /\ results' = Append(results,
                         WithAverages(model_results, total_tps, total_time, successful_tests))
    /\ attempts' = Append(attempts, [model |-> models[i], end |-> "reported", before |-> results])
    /\ i' = i + 1
    /\ pc' = "loop"
    /\ ResetLocals
    /\ UNCHANGED <<in_handler, exit, models, store, interrupts, listed, started, collected>>

\* ModelFault with `break` in place of `continue`.
ModelFaultBreaks ==
    /\ pc = "prompt"
    /\ attempts' = Append(attempts, [model |-> models[i], end |-> "fault", before |-> results])
    /\ i' = i + 1
    /\ pc' = "save"
    /\ ResetLocals
    /\ UNCHANGED <<in_handler, exit, models, results, store, interrupts, listed,
                   started, collected>>

\* ModelFault that benchmarks the same model again.
ModelFaultRetries ==
    /\ pc = "prompt"
    /\ attempts' = Append(attempts, [model |-> models[i], end |-> "fault", before |-> results])
    /\ i' = i
    /\ pc' = "loop"
    /\ ResetLocals
    /\ UNCHANGED <<in_handler, exit, models, results, store, interrupts, listed,
                   started, collected>>

\* ModelFault that appends the prompts gathered so far as a report.
ModelFaultKeepsPartial ==
    /\ pc = "prompt"
    /\ attempts' = Append(attempts, [model |-> models[i], end |-> "fault", before |-> results])
    /\ results' = Append(results, model_results)
    /\ i' = i + 1
    /\ pc' = "loop"
    /\ ResetLocals
    /\ UNCHANGED <<in_handler, exit, models, store, interrupts, listed,
                   started, collected>>

\* An exception escapes benchmark_model (a print or a memory reading outside
\* run_inference's try block fails): except Exception ... continue.
ModelFault ==
    /\ pc = "prompt"
    /\ attempts' = Append(attempts, [model |-> models[i], end |-> "fault", before |-> results])
    /\ i' = i + 1
    /\ pc' = "loop"
    /\ ResetLocals
    /\ UNCHANGED <<in_handler, exit, models, results, store, interrupts, listed,
                   started, collected>>

(* ----------------------------- save_results ---------------------------- *)

\* open(filename, 'w') truncates the file of today's date.
OpenArtifact ==
    /\ pc = "save"
    /\ artifact' = [state |-> "partial", results |-> <<>>]
    /\ pc' = "write"
    /\ UNCHANGED <<in_handler, exit, models, i, results, locals, summary, history>>

\* json.dump(benchmark_data, f) completes and the file is closed.
WriteArtifact ==
    /\ pc = "write"
    /\ artifact' = [state |-> "complete", results |-> results]
    /\ pc' = "summary"
    /\ UNCHANGED <<in_handler, exit, models, i, results, locals, summary, history>>

\* open or json.dump raises (OSError): nothing catches it, the process ends.
StoreFault ==
    /\ pc \in {"save", "write"}
    /\ pc' = "done"
    /\ exit' = "crash"
    /\ UNCHANGED <<in_handler, models, i, results, locals, store, history>>

(* ----------------------------- print_summary --------------------------- *)

\* PrintSummary with a print_summary that filters self.results in place.
PrintSummaryFilters ==
    /\ pc = "summary"
    /\ summary' = print_summary(results)
    /\ results' = Positive(results)
    /\ pc' = "done"
    /\ exit' = IF in_handler THEN "interrupted" ELSE "normal"
    /\ UNCHANGED <<in_handler, models, i, locals, artifact, history>>

\* PrintSummary with a print_summary that sorts self.results in place.
PrintSummarySorts ==
    /\ pc = "summary"
    /\ summary' = print_summary(results)
    /\ results' = SortedDesc(results)
    /\ pc' = "done"
    /\ exit' = IF in_handler THEN "interrupted" ELSE "normal"
    /\ UNCHANGED <<in_handler, models, i, locals, artifact, history>>

\* self.print_summary() is called and returns.
PrintSummary ==
    /\ pc = "summary"
    /\ summary' = print_summary(results)
    /\ pc' = "done"
    /\ exit' = IF in_handler THEN "interrupted" ELSE "normal"
    /\ UNCHANGED <<in_handler, models, i, results, locals, artifact, history>>

(* --------------------------- KeyboardInterrupt ------------------------- *)

\* MainHandler that only prints its message.
MainHandlerSkips(res) == [pc |-> "done", in_handler |-> TRUE, exit |-> "interrupted"]

\* main's handler: if benchmark.results: save_results(); print_summary()
MainHandler(res) ==
    IF res # <<>>
    THEN [pc |-> "save", in_handler |-> TRUE, exit |-> ""]
    ELSE [pc |-> "done", in_handler |-> TRUE, exit |-> "interrupted"]

\* Where a KeyboardInterrupt raised at position p takes the program.
AfterInterrupt(p, handling, res) ==
    IF handling
    THEN [pc |-> "done", in_handler |-> TRUE, exit |-> "killed"]
    ELSE IF p \in {"prompt", "invoke"}
    THEN [pc |-> "save", in_handler |-> FALSE, exit |-> ""]
    ELSE MainHandler(res)

Interrupt ==
    /\ pc # "done"
    /\ LET next == AfterInterrupt(pc, in_handler, results)
       IN  /\ pc' = next.pc
           /\ in_handler' = next.in_handler
           /\ exit' = next.exit
    /\ interrupts' = interrupts + 1
    /\ collected' = IF interrupts = 0 THEN <<results>> ELSE collected
    /\ attempts' = IF pc \in {"prompt", "invoke"}
                   THEN Append(attempts, [model |-> models[i], end |-> "interrupted",
                                          before |-> results])
                   ELSE attempts
    /\ ResetLocals
    /\ UNCHANGED <<models, i, results, store, listed, started>>

(* ---------------------------- specifications --------------------------- *)

\* Steps that do not depend on the inputs drawn.
Step ==
    \/ NextModel
    \/ LoopEnd
    \/ FinishModel
    \/ ModelFault
    \/ OpenArtifact
    \/ WriteArtifact
    \/ StoreFault
    \/ PrintSummary
    \/ Interrupt

\* A run over up to MaxModels models.
Next ==
    \/ Discover(RunListings)
    \/ StartInference(RunReadings)
    \/ FinishInference(RunCompletions)
    \/ Step

Spec == Init /\ [][Next]_vars

\* The steps the program takes by itself: every step but an interrupt and
\* a fault raised outside run_inference's try block.
ProgramStep ==
    \/ Discover(RunListings)
    \/ NextModel
    \/ LoopEnd
    \/ StartInference(RunReadings)
    \/ FinishInference(LiveCompletions)
    \/ FinishModel
    \/ OpenArtifact
    \/ WriteArtifact
    \/ PrintSummary

\* A run over up to MaxModels models in which an invocation succeeds or fails.
NextLive ==
    \/ Discover(RunListings)
    \/ StartInference(RunReadings)
    \/ FinishInference(LiveCompletions)
    \/ Step

\* The program keeps running, and every invocation ends (the backend
\* completes or fails, or subprocess.run times out after 120 seconds).
FairSpec == Init /\ [][NextLive]_vars /\ WF_vars(ProgramStep)

\* A run over at most one model, with every completion of an invocation.
NextOne ==
    \/ Discover(OneListings)
    \/ StartInference(MemoryReadings)
    \/ FinishInference(WideCompletions)
    \/ Step

OneSpec == Init /\ [][NextOne]_vars

(* ------------------------------- helpers ------------------------------- *)

\* The model identifiers of a sequence of reports or of attempts.
ModelsOf(rs) == [k \in 1..Len(rs) |-> rs[k].model]

\* s is a prefix of t.
IsPrefix(s, t) == Len(s) <= Len(t) /\ SubSeq(t, 1, Len(s)) = s

\* s is t with some elements left out.
RECURSIVE IsSubsequence(_, _)
IsSubsequence(s, t) ==
    IF s = <<>> THEN TRUE
    ELSE IF t = <<>> THEN FALSE
    ELSE IF Head(s) = Head(t) THEN IsSubsequence(Tail(s), Tail(t))
    ELSE IsSubsequence(s, Tail(t))

\* The attempts that ended as `end`.
RECURSIVE Ended(_, _)
Ended(as, end) ==
    IF as = <<>> THEN <<>>
    ELSE IF Head(as).end = end THEN <<Head(as)>> \o Ended(Tail(as), end)
    ELSE Ended(Tail(as), end)

\* save_results wrote all of rs and print_summary printed them.
Finalized(rs) ==
    /\ artifact = [state |-> "complete", results |-> rs]
    /\ summary = print_summary(rs)

RECURSIVE GCD(_, _)
GCD(a, b) == IF b = 0 THEN a ELSE GCD(b, a % b)

\* r in lowest terms (r.n >= 0, r.d > 0).
Lowest(r) == LET g == GCD(r.n, r.d) IN Rat(r.n \div g, r.d \div g)

\* The prompt results without an error.
RECURSIVE Successful(_)
Successful(prompts) ==
    IF prompts = <<>> THEN <<>>
    ELSE IF NoError(Head(prompts).metrics)
         THEN <<Head(prompts)>> \o Successful(Tail(prompts))
         ELSE Successful(Tail(prompts))

\* Sum of the tokens_per_second fields (hundredths) of prompt results.
RECURSIVE StoredTpsSum(_)
StoredTpsSum(prompts) ==
    IF prompts = <<>> THEN 0
    ELSE Head(prompts).metrics.tokens_per_second + StoredTpsSum(Tail(prompts))

\* Tokens per second of a successful prompt result, not rounded: tokens
\* over seconds (total_time is in hundredths of a second), 0 for no time.
ExactTps(metrics) ==
    IF metrics.total_time > 0
    THEN Lowest(Rat(100 * metrics.tokens_generated, metrics.total_time))
    ELSE Rat(0, 1)

RECURSIVE ExactTpsSum(_)
ExactTpsSum(prompts) ==
    IF prompts = <<>> THEN Rat(0, 1)
    ELSE RatAdd(ExactTps(Head(prompts).metrics), ExactTpsSum(Tail(prompts)))

\* The new last element of results' is a report of the current model
\* holding the prompt results collected so far.
PartialReportAppended ==
    /\ Len(results') = Len(results) + 1
    /\ IsPrefix(results, results')
    /\ results'[Len(results')].model = model_results.model
    /\ results'[Len(results')].prompts = model_results.prompts

(* -------------------------------- claims ------------------------------- *)

\* C1: per-model isolation.  When benchmarking a model ends in a fault that
\* is not an interruption, the reports accumulated before it are still the
\* first reports of self.results, the loop goes on with the model after it,
\* and a run that no interruption and no fault of save_results ends has
\* attempted every discovered model, written the artifact with all reports
\* and printed the summary.
C1_ModelFaultIsolated ==
    /\ \A k \in 1..Len(attempts) :
         attempts[k].end = "fault" =>
           /\ IsPrefix(attempts[k].before, results)
           /\ attempts[k].model = models[k]
           /\ k < Len(models) =>
                \/ Len(attempts) > k
                \/ pc = "loop" /\ i = k + 1
                \/ pc \in {"prompt", "invoke"} /\ i = k + 1
                      /\ model_results.model = models[k + 1]
                \/ interrupts > 0
    /\ (pc = "done" /\ interrupts = 0 /\ exit # "crash" /\ models # <<>>) =>
           /\ ModelsOf(attempts) = models
           /\ Finalized(results)

C1_Witness ==
    /\ pc = "done"
    /\ exit = "normal"
    /\ Len(attempts) = 2
    /\ attempts[1].end = "fault"
    /\ attempts[2].end = "reported"
    /\ Finalized(results)
    /\ Len(results) = 1

\* C2: per-prompt isolation.  Whatever way an invocation ends (exit 0, exit
\* non-zero, timeout, another exception), its result is appended under the
\* name of the prompt invoked, with an error exactly when it did not succeed;
\* the invocations of a model follow test_prompts in order; the end of an
\* invocation never ends the benchmark of the model (no attempt is closed,
\* the loop index and self.results stay), and a report is appended only
\* with one result for every prompt.
C2_Recorded ==
    /\ Len(outcomes) = Len(model_results.prompts)
    /\ \A k \in 1..Len(model_results.prompts) :
         /\ model_results.prompts[k].name = test_prompts[k].name
         /\ (outcomes[k] = "ok") <=> NoError(model_results.prompts[k].metrics)
    /\ pc = "invoke" =>
         /\ Len(call) = 1
         /\ call[1].prompt = test_prompts[Len(model_results.prompts) + 1].name

C2_Step ==
    /\ (pc = "invoke" /\ interrupts' = interrupts) =>
         /\ pc' = "prompt"
         /\ i' = i
         /\ attempts' = attempts
         /\ results' = results
         /\ Len(model_results'.prompts) = Len(model_results.prompts) + 1
         /\ IsPrefix(model_results.prompts, model_results'.prompts)
    /\ Len(results') > Len(results) =>
         /\ results'[Len(results')].prompts = model_results.prompts
         /\ Len(outcomes) = Len(test_prompts)

\* C2: every prompt failure is recorded in its prompt result and none ends
\* the benchmark of the model.
C2_PromptIsolation == []C2_Recorded /\ [][C2_Step]_vars

C2_Witness ==
    /\ Len(results) = 1
    /\ results[1].prompts[1].metrics = [error |-> TimeoutMessage]
    /\ results[1].prompts[2].metrics = [error |-> "exception"]
    /\ results[1].prompts[3].metrics.tokens_generated = MaxWords
    /\ results[1].prompts[3].name = test_prompts[3].name

\* C3: an interruption after discovery finalizes the run.  Once a
\* KeyboardInterrupt was delivered no invocation is running or started, and
\* a run that was interrupted once after discovery (and in which
\* save_results did not fault) ends with the artifact written with, and the
\* summary printed over, the reports collected when the interrupt came,
\* also when there were none.
C3_InterruptFinalizes ==
    /\ interrupts > 0 => (pc \notin {"prompt", "invoke"} /\ call = <<>>)
    /\ (pc = "done" /\ interrupts = 1 /\ models # <<>> /\ exit # "crash") =>
           Finalized(collected[1])

\* C4: an interruption after k of n models completed (0 < k < n).  A run
\* interrupted once when self.results held k reports, 0 < k < n (and in
\* which save_results did not fault), ends with the artifact holding exactly
\* those k reports, which are the reports of the models whose benchmark
\* completed, in discovery order, and with the summary table printed over
\* them.
C4_InterruptedPrefixPersisted ==
    (/\ pc = "done"
     /\ interrupts = 1
     /\ exit # "crash"
     /\ collected # <<>>
     /\ 0 < Len(collected[1])
     /\ Len(collected[1]) < Len(models)) =>
        /\ Finalized(collected[1])
        /\ results = collected[1]
        /\ ModelsOf(artifact.results) = ModelsOf(Ended(attempts, "reported"))
        /\ IsSubsequence(ModelsOf(artifact.results), models)
        /\ summary.kind = "table"

C4_Witness ==
    /\ pc = "done"
    /\ interrupts = 1
    /\ Len(models) = 2
    /\ Len(attempts) = 2
    /\ attempts[1].end = "reported"
    /\ attempts[2].end = "interrupted"
    /\ Len(collected[1]) = 1
    /\ Finalized(collected[1])

\* C5: a prompt loop interrupted after j of its prompts produced results
\* (0 <= j < len(test_prompts)) still emits a report of that model with
\* those j prompt results into self.results.
C5_InterruptedReportEmitted ==
    [][ (/\ pc \in {"prompt", "invoke"}
         /\ Len(model_results.prompts) < Len(test_prompts)
         /\ interrupts' > interrupts) => PartialReportAppended ]_vars

\* C6: a fault that escapes the benchmark of a model after some of its
\* prompts produced results still puts the partial report of that model
\* into self.results before the loop continues.
C6_FaultedReportEmitted ==
    [][ (/\ Len(attempts') > Len(attempts)
         /\ attempts'[Len(attempts')].end = "fault"
         /\ model_results.prompts # <<>>) =>
            (PartialReportAppended /\ pc' = "loop" /\ i' = i + 1) ]_vars

\* C7: no models, no run.  When `ollama list` exits non-zero or lists no
\* model, the run is over right after discovery: no benchmark_model call
\* and no invocation were made, self.results is empty, save_results was not
\* called (no artifact) and nothing was printed as a summary.
C7_NoModelsNoRun ==
    (pc # "discover" /\ (listed.returncode # 0 \/ listed.installed = 0)) =>
        /\ pc = "done"
        /\ exit \in {"no_models", "interrupted"}
        /\ models = <<>>
        /\ attempts = <<>>
        /\ call = <<>>
        /\ results = <<>>
        /\ artifact.state = "none"
        /\ summary.kind = "none"

C7_Witness ==
    /\ pc = "done"
    /\ exit = "no_models"
    /\ listed.returncode # 0
    /\ listed.installed > 0
    /\ artifact.state = "none"

\* C8: every report of the written artifact has success_rate, equal (at the
\* two decimals the report keeps) to the prompt results without error over
\* the prompts attempted, and a report without any success has
\* average_tps 0 and success_rate 0.
C8_SuccessRatePopulated ==
    artifact.state = "complete" =>
        \A k \in 1..Len(artifact.results) :
            LET r == artifact.results[k]
                n == Len(Successful(r.prompts))
            IN  /\ "success_rate" \in DOMAIN r
                /\ r.success_rate = Round2(Rat(n, Len(r.prompts)))
                /\ n = 0 => (r.average_tps = 0 /\ r.success_rate = 0)

\* C9 as stated: average_tps is the arithmetic mean of the tokens_per_second
\* of the prompt results without error, 0 when there is none.
C9_ExactMean ==
    \A k \in 1..Len(results) :
        LET ok == Successful(results[k].prompts)
        IN  IF ok = <<>> THEN results[k].average_tps = 0
            ELSE results[k].average_tps * Len(ok) = StoredTpsSum(ok)

\* C9 as amended: average_tps is the arithmetic mean, rounded to two
\* decimals, of the unrounded tokens per second (tokens over elapsed time,
\* 0 for no elapsed time) of exactly the prompt results without error, and
\* 0 when no prompt succeeded.
C9_RoundedMean ==
    \A k \in 1..Len(results) :
        LET ok == Successful(results[k].prompts)
        IN  results[k].average_tps =
                IF ok = <<>> THEN 0
                ELSE Round2(RatDiv(ExactTpsSum(ok), Len(ok)))

C9_Witness ==
    /\ Len(results) = 1
    /\ Len(Successful(results[1].prompts)) = 2
    /\ results[1].average_tps > 0
    /\ results[1].average_tps * 2 # StoredTpsSum(Successful(results[1].prompts))

\* C10: a reader of the artifact never finds it half written.
C10_NeverHalfWritten == artifact.state # "partial"

\* C11: whenever the process has ended with a report of positive
\* average_tps in self.results, print_summary has printed the table,
\* whatever interruptions and faults occurred in the run.
C11_SummaryAlwaysRendered ==
    (pc = "done" /\ \E k \in 1..Len(results) : Get(results[k], "average_tps") > 0) =>
        summary.kind = "table"

\* The keys of the metrics of a successful invocation.
MetricFields ==
    {"total_time", "tokens_generated", "tokens_per_second", "memory_delta_mb",
     "response_length"}

\* The metrics hold the error alone, or every metric field and no error.
ErrorOnly(metrics) == DOMAIN metrics = {"error"}
MetricsOnly(metrics) == DOMAIN metrics = MetricFields

\* C12: every prompt result holds exactly one of metrics and error.  The
\* result of an invocation that exited non-zero, timed out or raised holds
\* the error and no metric field, the result of a successful one holds every
\* metric field and no error; so does every prompt result of every report.
C12_MetricsXorError ==
    /\ \A k \in 1..Len(model_results.prompts) :
         IF outcomes[k] = "ok"
         THEN MetricsOnly(model_results.prompts[k].metrics)
         ELSE ErrorOnly(model_results.prompts[k].metrics)
    /\ \A k \in 1..Len(results) :
         \A j \in 1..Len(results[k].prompts) :
            \/ ErrorOnly(results[k].prompts[j].metrics)
            \/ MetricsOnly(results[k].prompts[j].metrics)

C12_Witness ==
    /\ Len(results) = 1
    /\ ErrorOnly(results[1].prompts[1].metrics)
    /\ results[1].prompts[1].metrics.error = "stderr"
    /\ MetricsOnly(results[1].prompts[2].metrics)
    /\ ErrorOnly(results[1].prompts[3].metrics)

\* Where the report of model m is in self.results, and its average_tps.
IndexOf(m) == CHOOSE k \in 1..Len(results) : results[k].model = m
TpsOf(m) == Get(results[IndexOf(m)], "average_tps")

\* The models of the reports with a positive average_tps.
PositiveModels ==
    { results[k].model : k \in { j \in 1..Len(results) : Get(results[j], "average_tps") > 0 } }

\* C13: the ranked table.  The table print_summary printed has one row for
\* each report with average_tps > 0 and no other row; the rows are in
\* descending order of average_tps, rows of equal average_tps in the order
\* of their reports in self.results; each row shows its report's average;
\* and the model named fastest is that of the first row.
C13_RankedTable ==
    summary.kind = "table" =>
        LET rows == summary.rows
        IN  /\ { rows[k].model : k \in 1..Len(rows) } = PositiveModels
            /\ Len(rows) = Cardinality(PositiveModels)
            /\ \A a, b \in 1..Len(rows) :
                 a < b =>
                    \/ TpsOf(rows[a].model) > TpsOf(rows[b].model)
                    \/ /\ TpsOf(rows[a].model) = TpsOf(rows[b].model)
                       /\ IndexOf(rows[a].model) < IndexOf(rows[b].model)
            /\ \A k \in 1..Len(rows) :
                 rows[k].avg_tps = FormatTenths(TpsOf(rows[k].model))
            /\ summary.fastest = IF rows = <<>> THEN <<>> ELSE <<rows[1].model>>

C13_Witness ==
    /\ summary.kind = "table"
    /\ Len(summary.rows) = 2
    /\ results[1].average_tps = results[2].average_tps
    /\ summary.rows[1].model = results[1].model
    /\ summary.fastest = <<results[1].model>>

\* C14: filtering is for display only.  No report with average_tps <= 0 has
\* a row in the table, a written artifact holds every report of
\* self.results, and printing the summary changes neither self.results nor
\* the artifact.
C14_State ==
    /\ summary.kind = "table" =>
         \A k \in 1..Len(summary.rows) : summary.rows[k].model \in PositiveModels
    /\ artifact.state = "complete" => artifact.results = results

C14_Step == summary' # summary => (results' = results /\ artifact' = artifact)

\* C14: reports without a positive average_tps are left out of the table
\* and kept in self.results and in the artifact.
C14_FilterKeepsReports == []C14_State /\ [][C14_Step]_vars

C14_Witness ==
    /\ pc = "done"
    /\ Len(results) = 2
    /\ results[1].average_tps = 0
    /\ summary.kind = "table"
    /\ Len(summary.rows) = 1
    /\ artifact = [state |-> "complete", results |-> results]

\* C15: no retries.  No (model, prompt) pair is invoked twice in a run,
\* whatever way its invocation ended; an invocation is started only while
\* none is in flight, and at most one is in flight at any time.
C15_State ==
    /\ \A a, b \in 1..Len(started) : started[a] = started[b] => a = b
    /\ Len(call) <= 1
    /\ (pc = "invoke") <=> (call # <<>>)
    /\ pc = "invoke" => started[Len(started)] = <<call[1].model, call[1].prompt>>

C15_Step ==
    started' # started =>
        /\ started' = Append(started, <<call'[1].model, call'[1].prompt>>)
        /\ call = <<>>

\* C15: a single invocation per (model, prompt), one invocation at a time.
C15_NoRetries == []C15_State /\ [][C15_Step]_vars

C15_Witness ==
    /\ pc = "done"
    /\ Len(started) = Len(test_prompts)
    /\ Len(results) = 1
    /\ results[1].prompts[1].metrics = [error |-> "stderr"]
    /\ results[1].prompts[2].metrics = [error |-> TimeoutMessage]
    /\ results[1].prompts[3].metrics = [error |-> "exception"]

\* The orchestrator's states in order: discovering, benchmarking, the three
\* steps of finalizing in run_full_benchmark, the same in main's handler,
\* done.
Stage ==
    CASE pc = "discover" -> 0
      [] pc \in {"loop", "prompt", "invoke"} -> 1
      [] pc = "save" -> IF in_handler THEN 5 ELSE 2
      [] pc = "write" -> IF in_handler THEN 6 ELSE 3
      [] pc = "summary" -> IF in_handler THEN 7 ELSE 4
      [] OTHER -> 8

\* How far the benchmark of the current model is.
Sub ==
    CASE pc = "prompt" -> 1 + 2 * Len(model_results.prompts)
      [] pc = "invoke" -> 2 + 2 * Len(model_results.prompts)
      [] OTHER -> 0

Position == <<Stage, i, Sub>>

\* Lexicographic order on positions.
Before(p, q) ==
    \/ p[1] < q[1]
    \/ p[1] = q[1] /\ p[2] < q[2]
    \/ p[1] = q[1] /\ p[2] = q[2] /\ p[3] < q[3]

\* The models benchmarked so far are the first discovered models, each once.
C16_State ==
    /\ IsPrefix(ModelsOf(attempts), models)
    /\ pc \in {"prompt", "invoke"} =>
         (i = Len(attempts) + 1 /\ model_results.model = models[i])
    /\ i <= Len(models) + 1
    /\ Sub <= 2 * Len(test_prompts) + 1

\* Every step moves the run forward, and finalizing begins only from
\* benchmarking.
C16_Step ==
    /\ Before(Position, Position')
    /\ (pc' = "save" /\ ~in_handler') => pc \in {"loop", "prompt", "invoke"}

\* C16: every run terminates.  When the program keeps running and every
\* invocation ends, the run reaches done; on the way every step advances
\* the position (discovering, then the models in discovery order, each
\* benchmarked at most once and never revisited, then finalizing).
C16_Terminates == <>(pc = "done") /\ []C16_State /\ [][C16_Step]_vars

C16_Witness ==
    /\ pc = "done"
    /\ exit = "normal"
    /\ Len(models) = 2
    /\ ModelsOf(attempts) = models
    /\ Len(started) = 2 * Len(test_prompts)

(* -------------------------------- C17 ---------------------------------- *)

\* The reports of results name distinct models, in the order of discovery.
C17_State ==
    /\ IsSubsequence(ModelsOf(results), models)
    /\ \A j, k \in 1..Len(results) : results[j].model = results[k].model => j = k

\* A step leaves the reports of results in place and unmodified: it can
\* only append.
C17_Step == IsPrefix(results, results')

\* C17: results is append-only.  It grows by one report per completed model,
\* its models are a subsequence of the discovered models with at most one
\* report per model, and no step removes, reorders or modifies a report.
C17_AppendOnly == []C17_State /\ [][C17_Step]_vars

\* Two reports were appended and the summary ranked the second above the
\* first, while results keeps the order of discovery.
C17_Witness ==
    /\ pc = "done"
    /\ Len(results) = 2
    /\ ModelsOf(results) = models
    /\ summary.kind = "table"
    /\ summary.rows # <<>>
    /\ summary.rows[1].model = results[2].model

(* -------------------------------- C18 ---------------------------------- *)

\* The names of the prompts of a report, in order.
PromptNames(r) == [k \in 1..Len(r.prompts) |-> r.prompts[k].name]

\* The names of the prompt set, in order.
PromptSetNames == [k \in 1..Len(test_prompts) |-> test_prompts[k].name]

\* C18: every report of results holds one prompt result per prompt of the
\* prompt set, in the prompt set's order; the reports are those of the models
\* whose benchmarking finished, so that a model interrupted or faulted
\* before its last prompt contributes no report at all.
C18_WholeReports ==
    /\ \A k \in 1..Len(results) : PromptNames(results[k]) = PromptSetNames
    /\ ModelsOf(results) = ModelsOf(Ended(attempts, "reported"))
    /\ \A k \in 1..Len(artifact.results) :
           PromptNames(artifact.results[k]) = PromptSetNames

\* The first model faulted after an invocation of it had started, the second
\* was benchmarked to its end: one report, of the second model.
C18_Witness ==
    /\ pc = "loop"
    /\ Len(attempts) = 2
    /\ attempts[1].end = "fault"
    /\ attempts[2].end = "reported"
    /\ started # <<>>
    /\ started[1][1] = models[1]
    /\ ModelsOf(results) = <<models[2]>>
    /\ Len(results[1].prompts) = Len(test_prompts)

(* -------------------------------- C19 ---------------------------------- *)

\* Every prompt of r ended without an error and with an empty response.
AllEmpty(r) ==
    /\ r.prompts # <<>>
    /\ \A k \in 1..Len(r.prompts) :
           /\ "error" \notin DOMAIN r.prompts[k].metrics
           /\ r.prompts[k].metrics.tokens_generated = 0

\* The number of invocations of the current model that exited zero.
RECURSIVE ExitedZero(_)
ExitedZero(os) ==
    IF os = <<>> THEN 0
    ELSE (IF Head(os) = "ok" THEN 1 ELSE 0) + ExitedZero(Tail(os))

\* C19: success is the absence of an error, whatever the response.  An
\* invocation that exits zero is counted as successful, an empty response
\* included, with 0 tokens and 0 tokens per second; a report whose responses
\* are all empty has success_rate 1.0 and average_tps 0, has no row in the
\* ranked table and is in the artifact of a run that ended normally.
C19_EmptyIsSuccess ==
    /\ successful_tests = ExitedZero(outcomes)
    /\ \A k \in 1..Len(model_results.prompts) :
           LET metrics == model_results.prompts[k].metrics
           IN  /\ outcomes[k] = "ok" <=> "error" \notin DOMAIN metrics
               /\ (outcomes[k] = "ok" /\ metrics.tokens_generated = 0) =>
                      metrics.tokens_per_second = 0
    /\ \A k \in 1..Len(results) :
           AllEmpty(results[k]) =>
               /\ {"success_rate", "average_tps"} \subseteq DOMAIN results[k]
               /\ results[k].success_rate = 100
               /\ results[k].average_tps = 0
               /\ \A j \in 1..Len(summary.rows) :
                      summary.rows[j].model # results[k].model
               /\ (pc = "done" /\ exit = "normal") =>
                      /\ artifact.state = "complete"
                      /\ \E j \in 1..Len(artifact.results) :
                             artifact.results[j] = results[k]

\* A run ended normally with two reports: the first model answered every
\* prompt with an empty response, and only the second is ranked.
C19_Witness ==
    /\ pc = "done"
    /\ exit = "normal"
    /\ Len(results) = 2
    /\ AllEmpty(results[1])
    /\ summary.kind = "table"
    /\ Len(summary.rows) = 1
    /\ summary.rows[1].model = results[2].model
    /\ artifact = [state |-> "complete", results |-> results]

====
